---- MODULE Spec2Model ----
(***************************************************************************)
(* StreamHandler of tradingview_scraper/symbols/stream/stream_handler.py:  *)
(* construction (token resolution, transport connect, session ids, the    *)
(* six setup messages), send_message, and the message framer.             *)
(*                                                                         *)
(* A Python str is a sequence of characters; a character is a one-element  *)
(* TLA+ string, except the two non-ASCII samples NON_ASCII_BMP and         *)
(* NON_ASCII_ASTRAL, which each stand for one code point.                  *)
(***************************************************************************)
EXTENDS Integers, Sequences, FiniteSets, TLC

VARIABLES
    pc,                 \* position of the constructor / handler life cycle
    session_id,         \* __init__ argument (Optional str)
    token,              \* __init__ local: what _get_auth_token returned
    auth_token,         \* __init__ local
    ws,                 \* self.ws: "none" until create_connection returned
    quote_session,      \* _initialize local
    chart_session,      \* _initialize local
    self_quote_session, \* self.quote_session (attribute absent = None)
    self_chart_session, \* self.chart_session
    step,               \* index of the next statement of _initialize_sessions
    wire,               \* every send_message call so far, in order
    last_send,          \* outcome of the latest self.ws.send
    raised,             \* exception that left the latest public call
    http_gets,          \* requests.get calls
    connects,           \* create_connection calls
    generated,          \* generate_session calls
    send_calls,         \* send_message calls
    ws_sends,           \* self.ws.send calls
    errors_logged,      \* logging.error calls
    user_sends,         \* send_message calls made by the owner after __init__
    frame_call,         \* latest create_message call: arguments and result
    resolve_call,       \* a _get_auth_token call taken alone: HTTP outcome, result
    gen_call            \* a generate_session call taken alone: prefix, letters drawn

vars == << pc, session_id, token, auth_token, ws, quote_session, chart_session,
           self_quote_session, self_chart_session, step, wire, last_send,
           raised, http_gets, connects, generated, send_calls, ws_sends,
           errors_logged, user_sends, frame_call, resolve_call, gen_call >>

---------------------------------------------------------------------------
(* Bounds of the exploration *)

MaxBodyLen == 3
NumSampleLetters == 2
MaxUserSends == 1
MaxNameLen == 2
MaxParams == 2

---------------------------------------------------------------------------
(* Values *)

None == [isNone |-> TRUE, v |-> <<>>]
Some(s) == [isNone |-> FALSE, v |-> s]

\* mutant: `is not None` instead of truthiness: "" counts as a credential
Truthy_not_none(x) == ~x.isNone

\* Python truthiness of an Optional[str]: None and "" are falsy
Truthy(x) == ~x.isNone /\ x.v # <<>>

\* JSON-serializable parameter values: a str (s), an int (n) or a list (l)
JStr(s) == [t |-> "str", s |-> s, n |-> 0, l |-> <<>>]
JInt(n) == [t |-> "int", s |-> <<>>, n |-> n, l |-> <<>>]
JList(l) == [t |-> "list", s |-> <<>>, n |-> 0, l |-> l]

NON_ASCII_BMP == "U+00E9"
NON_ASCII_ASTRAL == "U+1F600"

F_set_auth_token ==
    <<"s", "e", "t", "_", "a", "u", "t", "h", "_", "t", "o", "k", "e", "n">>

F_set_locale ==
    <<"s", "e", "t", "_", "l", "o", "c", "a", "l", "e">>

F_chart_create_session ==
    <<"c", "h", "a", "r", "t", "_", "c", "r", "e", "a", "t", "e", "_", "s", "e", "s", "s", "i", "o", "n">>

F_quote_create_session ==
    <<"q", "u", "o", "t", "e", "_", "c", "r", "e", "a", "t", "e", "_", "s", "e", "s", "s", "i", "o", "n">>

F_quote_set_fields ==
    <<"q", "u", "o", "t", "e", "_", "s", "e", "t", "_", "f", "i", "e", "l", "d", "s">>

F_quote_hibernate_all ==
    <<"q", "u", "o", "t", "e", "_", "h", "i", "b", "e", "r", "n", "a", "t", "e", "_", "a", "l", "l">>

UNAUTHORIZED_USER_TOKEN ==
    <<"u", "n", "a", "u", "t", "h", "o", "r", "i", "z", "e", "d", "_", "u", "s", "e", "r", "_", "t", "o", "k", "e", "n">>

QS_PREFIX == <<"q", "s", "_">>

CS_PREFIX == <<"c", "s", "_">>

ascii_lowercase ==
    <<"a", "b", "c", "d", "e", "f", "g", "h", "i", "j", "k", "l", "m", "n", "o", "p", "q", "r", "s", "t", "u", "v", "w", "x", "y", "z">>

\* mutant: one name ("minmove2") is left out of the list
get_quote_fields_one_missing ==
    << JStr(<<"c", "h">>),
       JStr(<<"c", "h", "p">>),
       JStr(<<"c", "u", "r", "r", "e", "n", "t", "_", "s", "e", "s", "s", "i", "o", "n">>),
       JStr(<<"d", "e", "s", "c", "r", "i", "p", "t", "i", "o", "n">>),
       JStr(<<"l", "o", "c", "a", "l", "_", "d", "e", "s", "c", "r", "i", "p", "t", "i", "o", "n">>),
       JStr(<<"l", "a", "n", "g", "u", "a", "g", "e">>),
       JStr(<<"e", "x", "c", "h", "a", "n", "g", "e">>),
       JStr(<<"f", "r", "a", "c", "t", "i", "o", "n", "a", "l">>),
       JStr(<<"i", "s", "_", "t", "r", "a", "d", "a", "b", "l", "e">>),
       JStr(<<"l", "p">>),
       JStr(<<"l", "p", "_", "t", "i", "m", "e">>),
       JStr(<<"m", "i", "n", "m", "o", "v">>),
       JStr(<<"o", "r", "i", "g", "i", "n", "a", "l", "_", "n", "a", "m", "e">>),
       JStr(<<"p", "r", "i", "c", "e", "s", "c", "a", "l", "e">>),
       JStr(<<"p", "r", "o", "_", "n", "a", "m", "e">>),
       JStr(<<"s", "h", "o", "r", "t", "_", "n", "a", "m", "e">>),
       JStr(<<"t", "y", "p", "e">>),
       JStr(<<"u", "p", "d", "a", "t", "e", "_", "m", "o", "d", "e">>),
       JStr(<<"v", "o", "l", "u", "m", "e">>),
       JStr(<<"c", "u", "r", "r", "e", "n", "c", "y", "_", "c", "o", "d", "e">>),
       JStr(<<"r", "c", "h", "p">>),
       JStr(<<"r", "t", "c">>) >>

get_quote_fields ==
    << JStr(<<"c", "h">>),
       JStr(<<"c", "h", "p">>),
       JStr(<<"c", "u", "r", "r", "e", "n", "t", "_", "s", "e", "s", "s", "i", "o", "n">>),
       JStr(<<"d", "e", "s", "c", "r", "i", "p", "t", "i", "o", "n">>),
       JStr(<<"l", "o", "c", "a", "l", "_", "d", "e", "s", "c", "r", "i", "p", "t", "i", "o", "n">>),
       JStr(<<"l", "a", "n", "g", "u", "a", "g", "e">>),
       JStr(<<"e", "x", "c", "h", "a", "n", "g", "e">>),
       JStr(<<"f", "r", "a", "c", "t", "i", "o", "n", "a", "l">>),
       JStr(<<"i", "s", "_", "t", "r", "a", "d", "a", "b", "l", "e">>),
       JStr(<<"l", "p">>),
       JStr(<<"l", "p", "_", "t", "i", "m", "e">>),
       JStr(<<"m", "i", "n", "m", "o", "v">>),
       JStr(<<"m", "i", "n", "m", "o", "v", "e", "2">>),
       JStr(<<"o", "r", "i", "g", "i", "n", "a", "l", "_", "n", "a", "m", "e">>),
       JStr(<<"p", "r", "i", "c", "e", "s", "c", "a", "l", "e">>),
       JStr(<<"p", "r", "o", "_", "n", "a", "m", "e">>),
       JStr(<<"s", "h", "o", "r", "t", "_", "n", "a", "m", "e">>),
       JStr(<<"t", "y", "p", "e">>),
       JStr(<<"u", "p", "d", "a", "t", "e", "_", "m", "o", "d", "e">>),
       JStr(<<"v", "o", "l", "u", "m", "e">>),
       JStr(<<"c", "u", "r", "r", "e", "n", "c", "y", "_", "c", "o", "d", "e">>),
       JStr(<<"r", "c", "h", "p">>),
       JStr(<<"r", "t", "c">>) >>

AUTH_TOKEN_PATTERN_HEAD ==
    <<"\"", "a", "u", "t", "h", "_", "t", "o", "k", "e", "n", "\"", ":", "\"">>

---------------------------------------------------------------------------
(* json.dumps(..., separators=(',', ':')) with the default ensure_ascii *)

Digits == <<"0", "1", "2", "3", "4", "5", "6", "7", "8", "9">>

\* str(n) / f"{n}" for n >= 0
RECURSIVE ToDecimal(_)
ToDecimal(n) ==
    IF n < 10 THEN << Digits[n + 1] >>
    ELSE ToDecimal(n \div 10) \o << Digits[(n % 10) + 1] >>

\* one character inside a JSON string literal (json.encoder ESCAPE_ASCII)
EscapeChar(c) ==
    CASE c = "\"" -> << "\\", "\"" >>
      [] c = "\\" -> << "\\", "\\" >>
      [] c = "\n" -> << "\\", "n" >>
      [] c = NON_ASCII_BMP -> << "\\", "u", "0", "0", "e", "9" >>
      [] c = NON_ASCII_ASTRAL ->
            << "\\", "u", "d", "8", "3", "d", "\\", "u", "d", "e", "0", "0" >>
      [] OTHER -> << c >>

RECURSIVE EscapeChars(_)
EscapeChars(s) ==
    IF s = <<>> THEN <<>> ELSE EscapeChar(Head(s)) \o EscapeChars(Tail(s))

DumpsStr(s) == << "\"" >> \o EscapeChars(s) \o << "\"" >>

DumpsInt(n) == IF n < 0 THEN << "-" >> \o ToDecimal(-n) ELSE ToDecimal(n)

RECURSIVE DumpsValue(_)
RECURSIVE DumpsItems(_)
DumpsItems(l) ==
    IF l = <<>> THEN <<>>
    ELSE IF Len(l) = 1 THEN DumpsValue(l[1])
    ELSE DumpsValue(l[1]) \o << "," >> \o DumpsItems(Tail(l))

DumpsValue(x) ==
    CASE x.t = "str" -> DumpsStr(x.s)
      [] x.t = "int" -> DumpsInt(x.n)
      [] x.t = "list" -> << "[" >> \o DumpsItems(x.l) \o << "]" >>

RECURSIVE DumpsValueSpaced(_)
RECURSIVE DumpsItemsSpaced(_)
DumpsItemsSpaced(l) ==
    IF l = <<>> THEN <<>>
    ELSE IF Len(l) = 1 THEN DumpsValueSpaced(l[1])
    ELSE DumpsValueSpaced(l[1]) \o << ",", " " >> \o DumpsItemsSpaced(Tail(l))

DumpsValueSpaced(x) ==
    CASE x.t = "str" -> DumpsStr(x.s)
      [] x.t = "int" -> DumpsInt(x.n)
      [] x.t = "list" -> << "[" >> \o DumpsItemsSpaced(x.l) \o << "]" >>

\* mutant: json.dumps without separators=(',', ':'), i.e. ", " and ": "
construct_message_default_separators(func, param_list) ==
    << "{", "\"", "m", "\"", ":", " " >> \o DumpsStr(func)
        \o << ",", " ", "\"", "p", "\"", ":", " " >>
        \o DumpsValueSpaced(JList(param_list))
        \o << "}" >>

\* json.dumps({"m": func, "p": param_list}, separators=(',', ':'))
construct_message(func, param_list) ==
    << "{", "\"", "m", "\"", ":" >> \o DumpsStr(func)
        \o << ",", "\"", "p", "\"", ":" >> \o DumpsValue(JList(param_list))
        \o << "}" >>

HeaderMark == << "~", "m", "~" >>

\* mutant: the length field is one more than len(message)
prepend_header_off_by_one(message) ==
    HeaderMark \o ToDecimal(Len(message) + 1) \o HeaderMark \o message

\* f"~m~{len(message)}~m~{message}"
prepend_header(message) ==
    HeaderMark \o ToDecimal(Len(message)) \o HeaderMark \o message

create_message(func, param_list) ==
    prepend_header(construct_message(func, param_list))

---------------------------------------------------------------------------
(* _get_auth_token: one requests.get, raise_for_status, re.search *)

\* what requests.get can do: raise a RequestException, or return a response
RequestExceptions == { "requests.ConnectionError", "requests.Timeout" }

StatusCodes == { 200, 304, 404, 503 }

\* response.text is a concatenation of at most MaxBodyLen of these pieces
BodyChunks == { AUTH_TOKEN_PATTERN_HEAD, << "\"" >>, << "t" >>, << "\n" >> }

RECURSIVE BodiesUpTo(_)
BodiesUpTo(n) ==
    IF n = 0 THEN { <<>> }
    ELSE LET B == BodiesUpTo(n - 1)
         IN  B \cup { b \o c : b \in B, c \in BodyChunks }

HttpOutcomes ==
    { [exc |-> e, status |-> 0, text |-> <<>>] : e \in RequestExceptions }
        \cup { [exc |-> "none", status |-> st, text |-> b] :
                 st \in StatusCodes, b \in BodiesUpTo(MaxBodyLen) }

\* mutant: only server errors (5xx) count as a failed request
RaisesForStatus_server_errors_only(status) == 500 <= status /\ status < 600

\* response.raise_for_status(): HTTPError for 4xx and 5xx
RaisesForStatus(status) == 400 <= status /\ status < 600

HeadAt(text, i) ==
    /\ i + Len(AUTH_TOKEN_PATTERN_HEAD) - 1 <= Len(text)
    /\ SubSeq(text, i, i + Len(AUTH_TOKEN_PATTERN_HEAD) - 1) = AUTH_TOKEN_PATTERN_HEAD

\* positions at which the closing quote of (.+?)" can stand for a head at i
CloseQuotes(text, i) ==
    { j \in (i + Len(AUTH_TOKEN_PATTERN_HEAD) + 1) .. Len(text) : text[j] = "\"" }

FirstClose(text, i) ==
    CHOOSE j \in CloseQuotes(text, i) : \A k \in CloseQuotes(text, i) : j <= k

GroupAt(text, i) ==
    SubSeq(text, i + Len(AUTH_TOKEN_PATTERN_HEAD), FirstClose(text, i) - 1)

\* r'"auth_token":"(.+?)"' matches starting at i ('.' matches no newline)
MatchAt(text, i) ==
    /\ HeadAt(text, i)
    /\ CloseQuotes(text, i) # {}
    /\ \A k \in 1 .. Len(GroupAt(text, i)) : GroupAt(text, i)[k] # "\n"

\* re.search(...): the leftmost match; match.group(1) or None
ReSearch(text) ==
    LET starts == { i \in 1 .. Len(text) : MatchAt(text, i) }
    IN  IF starts = {} THEN None
        ELSE Some(GroupAt(text, CHOOSE i \in starts : \A k \in starts : i <= k))

\* the except branch of _get_auth_token is taken
RequestFailed(o) == o.exc # "none" \/ RaisesForStatus(o.status)

\* the exception raised inside the try block of _get_auth_token, if any
RaisedInTry(o) ==
    IF o.exc # "none" THEN o.exc
    ELSE IF RaisesForStatus(o.status) THEN "requests.HTTPError"
    ELSE "none"

\* except requests.RequestException: every exception class of requests
CaughtByResolver ==
    { "requests.ConnectionError", "requests.Timeout", "requests.HTTPError" }

\* the exception that leaves _get_auth_token ("none": it returns)
ResolverRaises(o) ==
    IF RaisedInTry(o) \in CaughtByResolver THEN "none" ELSE RaisedInTry(o)

get_auth_token(o) == IF RequestFailed(o) THEN None ELSE ReSearch(o.text)

---------------------------------------------------------------------------
(* generate_session *)

SessionLen == 12

SampleLetters == { ascii_lowercase[i] : i \in 1 .. NumSampleLetters }

\* the sampled results of the 12 secrets.choice calls
RandomStrings ==
    { [i \in 1 .. SessionLen |-> IF 2 * i <= SessionLen THEN a ELSE b] :
        a \in SampleLetters, b \in SampleLetters }

\* mutant: the random letters are put before the prefix
generate_session_suffix_first(prefix, random_string) == random_string \o prefix

generate_session(prefix, random_string) == prefix \o random_string

---------------------------------------------------------------------------
(* _initialize_sessions: the setup calls, in statement order *)

\* mutant: the auth token is also passed to quote_create_session
initialize_sessions_token_twice(qs, cs, tok) ==
    << [func |-> F_set_auth_token, args |-> << JStr(tok) >>],
       [func |-> F_set_locale, args |-> << JStr(<< "e", "n" >>), JStr(<< "U", "S" >>) >>],
       [func |-> F_chart_create_session, args |-> << JStr(cs), JStr(<<>>) >>],
       [func |-> F_quote_create_session, args |-> << JStr(qs), JStr(tok) >>],
       [func |-> F_quote_set_fields, args |-> << JStr(qs) >> \o get_quote_fields],
       [func |-> F_quote_hibernate_all, args |-> << JStr(qs) >>] >>

initialize_sessions(qs, cs, tok) ==
    << [func |-> F_set_auth_token, args |-> << JStr(tok) >>],
       [func |-> F_set_locale, args |-> << JStr(<< "e", "n" >>), JStr(<< "U", "S" >>) >>],
       [func |-> F_chart_create_session, args |-> << JStr(cs), JStr(<<>>) >>],
       [func |-> F_quote_create_session, args |-> << JStr(qs) >>],
       [func |-> F_quote_set_fields, args |-> << JStr(qs) >> \o get_quote_fields],
       [func |-> F_quote_hibernate_all, args |-> << JStr(qs) >>] >>

---------------------------------------------------------------------------
(* The transport: websocket.create_connection and WebSocket.send *)

\* create_connection returns a connection or raises
ConnectFailures == { "ConnectionRefusedError", "WebSocketBadStatusException" }

\* what self.ws.send can raise: built-in connection and timeout errors, and the
\* transport library's own exception classes
SendFailures ==
    { "ConnectionError", "TimeoutError",
      "WebSocketConnectionClosedException", "WebSocketTimeoutException" }

SendOutcomes == { "ok" } \cup SendFailures

\* except (ConnectionError, TimeoutError)
CaughtOnSend == { "ConnectionError", "TimeoutError" }

\* the exception leaves send_message
Propagates(outcome) == outcome \in SendFailures \ CaughtOnSend

---------------------------------------------------------------------------
(* Control flow of __init__ and _initialize, in statement order *)

\* mutant: the connection is opened before the token is resolved
init_body_connect_first == << "connect", "resolve" >>

init_body == << "resolve", "connect" >>

\* mutant: _initialize stores the session fields before _initialize_sessions
initialize_body_store_first == << "gen_quote", "gen_chart", "store", "setup" >>

initialize_body == << "gen_quote", "gen_chart", "setup", "store" >>

ConstructorBody == init_body \o initialize_body

\* the statement after p; the constructor returns after its last statement
After(p) ==
    LET i == CHOOSE k \in 1 .. Len(ConstructorBody) : ConstructorBody[k] = p
    IN  IF i = Len(ConstructorBody) THEN "ready" ELSE ConstructorBody[i + 1]

\* callers pass no credential, an empty one, or a sessionid cookie value
Credentials == { None, Some(<<>>), Some(<< "s", "i", "d" >>) }

\* no _get_auth_token / generate_session call is being looked at on its own
NoResolveCall ==
    [outcome |-> [exc |-> "none", status |-> 0, text |-> <<>>],
     result |-> None, raised |-> "none", done |-> FALSE]

NoGenCall == [prefix |-> <<>>, random_string |-> <<>>, result |-> None]

Init ==
    /\ pc = ConstructorBody[1]
    /\ session_id \in Credentials
    /\ token = None
    /\ auth_token = None
    /\ ws = "none"
    /\ quote_session = None
    /\ chart_session = None
    /\ self_quote_session = None
    /\ self_chart_session = None
    /\ step = 1
    /\ wire = <<>>
    /\ last_send = "none"
    /\ raised = "none"
    /\ http_gets = 0
    /\ connects = 0
    /\ generated = 0
    /\ send_calls = 0
    /\ ws_sends = 0
    /\ errors_logged = 0
    /\ user_sends = 0
    /\ frame_call = [func |-> <<>>, param_list |-> <<>>, message |-> <<>>]
    /\ resolve_call = NoResolveCall
    /\ gen_call = NoGenCall

\* mutant: _get_auth_token is called without the `if session_id:` guard
ResolveAuthToken_unguarded ==
    /\ pc = "resolve"
    /\ \E o \in HttpOutcomes :
          /\ token' = get_auth_token(o)
          /\ auth_token' = IF Truthy(get_auth_token(o))
                           THEN get_auth_token(o)
                           ELSE Some(UNAUTHORIZED_USER_TOKEN)
          /\ http_gets' = http_gets + 1
          /\ errors_logged' = errors_logged
                + (IF RequestFailed(o) THEN 1 ELSE 0)
                + (IF Truthy(get_auth_token(o)) THEN 0 ELSE 1)
    /\ pc' = After("resolve")
    /\ UNCHANGED << session_id, ws, quote_session, chart_session,
                    self_quote_session, self_chart_session, step, wire,
                    last_send, raised, connects, generated, send_calls,
                    ws_sends, user_sends, frame_call,
                    resolve_call, gen_call >>

\* mutant: the resolver's result is used without the `if token:` fallback
ResolveAuthToken_no_fallback ==
    /\ pc = "resolve"
    /\ IF Truthy(session_id)
       THEN \E o \in HttpOutcomes :
              /\ token' = get_auth_token(o)
              /\ auth_token' = get_auth_token(o)
              /\ http_gets' = http_gets + 1
              /\ errors_logged' = errors_logged
                    + (IF RequestFailed(o) THEN 1 ELSE 0)
       ELSE /\ token' = token
            /\ auth_token' = Some(UNAUTHORIZED_USER_TOKEN)
            /\ UNCHANGED << http_gets, errors_logged >>
    /\ pc' = After("resolve")
    /\ UNCHANGED << session_id, ws, quote_session, chart_session,
                    self_quote_session, self_chart_session, step, wire,
                    last_send, raised, connects, generated, send_calls,
                    ws_sends, user_sends, frame_call,
                    resolve_call, gen_call >>

\* __init__, token resolution: auth_token defaults to the sentinel and is
\* replaced by a truthy result of _get_auth_token when session_id is truthy
ResolveAuthToken ==
    /\ pc = "resolve"
    /\ IF Truthy(session_id)
       THEN \E o \in HttpOutcomes :
              /\ token' = get_auth_token(o)
              /\ auth_token' = IF Truthy(get_auth_token(o))
                               THEN get_auth_token(o)
                               ELSE Some(UNAUTHORIZED_USER_TOKEN)
              /\ http_gets' = http_gets + 1
              /\ errors_logged' = errors_logged
                    + (IF RequestFailed(o) THEN 1 ELSE 0)
                    + (IF Truthy(get_auth_token(o)) THEN 0 ELSE 1)
       ELSE /\ token' = token
            /\ auth_token' = Some(UNAUTHORIZED_USER_TOKEN)
            /\ UNCHANGED << http_gets, errors_logged >>
    /\ pc' = After("resolve")
    /\ UNCHANGED << session_id, ws, quote_session, chart_session,
                    self_quote_session, self_chart_session, step, wire,
                    last_send, raised, connects, generated, send_calls,
                    ws_sends, user_sends, frame_call,
                    resolve_call, gen_call >>

\* mutant: a failed create_connection is tried a second time before giving up
CreateConnection_retry ==
    /\ pc = "connect"
    /\ \/ /\ ws' = "open"
          /\ connects' = connects + 1
          /\ pc' = After("connect")
          /\ UNCHANGED raised
       \/ \E e \in ConnectFailures :
             /\ connects' = connects + 2
             /\ \/ /\ ws' = "open"
                   /\ pc' = After("connect")
                   /\ UNCHANGED raised
                \/ /\ raised' = e
                   /\ pc' = "failed"
                   /\ UNCHANGED ws
    /\ UNCHANGED << session_id, token, auth_token, quote_session, chart_session,
                    self_quote_session, self_chart_session, step, wire,
                    last_send, http_gets, generated, send_calls, ws_sends,
                    errors_logged, user_sends, frame_call,
                    resolve_call, gen_call >>

\* self.ws = create_connection(websocket_url, headers=self.request_header)
CreateConnection ==
    /\ pc = "connect"
    /\ connects' = connects + 1
    /\ \/ /\ ws' = "open"
          /\ pc' = After("connect")
          /\ UNCHANGED raised
       \/ \E e \in ConnectFailures :
             /\ raised' = e
             /\ pc' = "failed"
             /\ UNCHANGED ws
    /\ UNCHANGED << session_id, token, auth_token, quote_session, chart_session,
                    self_quote_session, self_chart_session, step, wire,
                    last_send, http_gets, generated, send_calls, ws_sends,
                    errors_logged, user_sends, frame_call,
                    resolve_call, gen_call >>

\* quote_session = self.generate_session(prefix="qs_")
GenerateQuoteSession ==
    /\ pc = "gen_quote"
    /\ \E r \in RandomStrings :
          quote_session' = Some(generate_session(QS_PREFIX, r))
    /\ generated' = generated + 1
    /\ pc' = After("gen_quote")
    /\ UNCHANGED << session_id, token, auth_token, ws, chart_session,
                    self_quote_session, self_chart_session, step, wire,
                    last_send, raised, http_gets, connects, send_calls,
                    ws_sends, errors_logged, user_sends, frame_call,
                    resolve_call, gen_call >>

\* chart_session = self.generate_session(prefix="cs_")
GenerateChartSession ==
    /\ pc = "gen_chart"
    /\ \E r \in RandomStrings :
          chart_session' = Some(generate_session(CS_PREFIX, r))
    /\ generated' = generated + 1
    /\ pc' = After("gen_chart")
    /\ UNCHANGED << session_id, token, auth_token, ws, quote_session,
                    self_quote_session, self_chart_session, step, wire,
                    last_send, raised, http_gets, connects, send_calls,
                    ws_sends, errors_logged, user_sends, frame_call,
                    resolve_call, gen_call >>

\* mutant: a caught send failure is followed by a second self.ws.send
send_message_retry_once(func, args, outcome) ==
    /\ frame_call' = [func |-> func, param_list |-> args,
                      message |-> create_message(func, args)]
    /\ wire' = Append(wire, [func |-> func, args |-> args,
                             message |-> create_message(func, args)])
    /\ send_calls' = send_calls + 1
    /\ ws_sends' = ws_sends + (IF outcome \in CaughtOnSend THEN 2 ELSE 1)
    /\ last_send' = outcome
    /\ errors_logged' = errors_logged + (IF outcome \in CaughtOnSend THEN 1 ELSE 0)
    /\ raised' = IF Propagates(outcome) THEN outcome ELSE "none"

\* send_message(func, args) when self.ws.send ends with `outcome`
send_message(func, args, outcome) ==
    /\ frame_call' = [func |-> func, param_list |-> args,
                      message |-> create_message(func, args)]
    /\ wire' = Append(wire, [func |-> func, args |-> args,
                             message |-> create_message(func, args)])
    /\ send_calls' = send_calls + 1
    /\ ws_sends' = ws_sends + 1
    /\ last_send' = outcome
    /\ errors_logged' = errors_logged + (IF outcome \in CaughtOnSend THEN 1 ELSE 0)
    /\ raised' = IF Propagates(outcome) THEN outcome ELSE "none"

\* one statement of _initialize_sessions
SendSetupMessage ==
    /\ pc = "setup"
    /\ LET m == initialize_sessions(quote_session.v, chart_session.v,
                                    auth_token.v)[step]
       IN  \E o \in SendOutcomes :
              /\ send_message(m.func, m.args, o)
              /\ IF Propagates(o)
                 THEN pc' = "failed" /\ step' = step
                 ELSE /\ step' = step + 1
                      /\ pc' = IF step = Len(initialize_sessions(<<>>, <<>>, <<>>))
                               THEN After("setup") ELSE "setup"
    /\ UNCHANGED << session_id, token, auth_token, ws, quote_session,
                    chart_session, self_quote_session, self_chart_session,
                    http_gets, connects, generated, user_sends,
                    resolve_call, gen_call >>

\* mutant: the two session ids are stored in each other's field
StoreSessions_swapped ==
    /\ pc = "store"
    /\ self_quote_session' = chart_session
    /\ self_chart_session' = quote_session
    /\ pc' = After("store")
    /\ UNCHANGED << session_id, token, auth_token, ws, quote_session,
                    chart_session, step, wire, last_send, raised, http_gets,
                    connects, generated, send_calls, ws_sends, errors_logged,
                    user_sends, frame_call, resolve_call, gen_call >>

\* self.quote_session = quote_session; self.chart_session = chart_session
StoreSessions ==
    /\ pc = "store"
    /\ self_quote_session' = quote_session
    /\ self_chart_session' = chart_session
    /\ pc' = After("store")
    /\ UNCHANGED << session_id, token, auth_token, ws, quote_session,
                    chart_session, step, wire, last_send, raised, http_gets,
                    connects, generated, send_calls, ws_sends, errors_logged,
                    user_sends, frame_call,
                    resolve_call, gen_call >>

\* the calls the owner of a constructed handler makes
UserCalls ==
    { [func |-> << "q" >>, args |-> <<>>],
      [func |-> << "q" >>, args |-> << JStr(<< "s" >>), JInt(1) >>] }

\* mutant: a failed send closes the connection
UserSendMessage_closes_on_failure ==
    /\ pc = "ready"
    /\ user_sends < MaxUserSends
    /\ user_sends' = user_sends + 1
    /\ \E c \in UserCalls, o \in SendOutcomes :
          /\ send_message(c.func, c.args, o)
          /\ ws' = IF o \in SendFailures THEN "closed" ELSE ws
    /\ UNCHANGED << pc, session_id, token, auth_token, quote_session,
                    chart_session, self_quote_session, self_chart_session,
                    step, http_gets, connects, generated, resolve_call,
                    gen_call >>

\* send_message called on the constructed handler
UserSendMessage ==
    /\ pc = "ready"
    /\ user_sends < MaxUserSends
    /\ user_sends' = user_sends + 1
    /\ \E c \in UserCalls, o \in SendOutcomes : send_message(c.func, c.args, o)
    /\ UNCHANGED << pc, session_id, token, auth_token, ws, quote_session,
                    chart_session, self_quote_session, self_chart_session,
                    step, http_gets, connects, generated,
                    resolve_call, gen_call >>

Next ==
    \/ ResolveAuthToken
    \/ CreateConnection
    \/ GenerateQuoteSession
    \/ GenerateChartSession
    \/ SendSetupMessage
    \/ StoreSessions
    \/ UserSendMessage

Spec == Init /\ [][Next]_vars

---------------------------------------------------------------------------
(* The framer alone: create_message applied to sampled arguments *)

FrameAlphabet == { "a", "~", "\"", "\\", "\n", NON_ASCII_BMP }

RECURSIVE StringsUpTo(_)
StringsUpTo(n) ==
    IF n = 0 THEN { <<>> }
    ELSE LET S == StringsUpTo(n - 1)
         IN  S \cup { Append(x, c) : x \in S, c \in FrameAlphabet }

ParamValues ==
    { JStr(<<>>), JStr(<< "a", "\"" >>), JStr(<< NON_ASCII_ASTRAL >>),
      JInt(-12), JInt(0),
      JList(<<>>), JList(<< JStr(<< "\\" >>), JInt(7) >>),
      JList(get_quote_fields) }

RECURSIVE ParamListsUpTo(_)
ParamListsUpTo(n) ==
    IF n = 0 THEN { <<>> }
    ELSE LET S == ParamListsUpTo(n - 1)
         IN  S \cup { Append(x, c) : x \in S, c \in ParamValues }

\* the handler untouched; the arguments of the call are drawn here
InitFrame ==
    /\ pc = ConstructorBody[1]
    /\ session_id = None
    /\ token = None
    /\ auth_token = None
    /\ ws = "none"
    /\ quote_session = None
    /\ chart_session = None
    /\ self_quote_session = None
    /\ self_chart_session = None
    /\ step = 1
    /\ wire = <<>>
    /\ last_send = "none"
    /\ raised = "none"
    /\ http_gets = 0
    /\ connects = 0
    /\ generated = 0
    /\ send_calls = 0
    /\ ws_sends = 0
    /\ errors_logged = 0
    /\ user_sends = 0
    /\ \E f \in StringsUpTo(MaxNameLen), p \in ParamListsUpTo(MaxParams) :
          frame_call = [func |-> f, param_list |-> p, message |-> <<>>]
    /\ resolve_call = NoResolveCall
    /\ gen_call = NoGenCall

\* create_message(func, param_list), nothing else of the handler involved
CallCreateMessage ==
    /\ frame_call.message = <<>>
    /\ frame_call' = [frame_call EXCEPT
                        !.message = create_message(frame_call.func,
                                                   frame_call.param_list)]
    /\ UNCHANGED << pc, session_id, token, auth_token, ws, quote_session,
                    chart_session, self_quote_session, self_chart_session,
                    step, wire, last_send, raised, http_gets, connects,
                    generated, send_calls, ws_sends, errors_logged,
                    user_sends,
                    resolve_call, gen_call >>

NextFrame == CallCreateMessage

SpecFrame == InitFrame /\ [][NextFrame]_vars

---------------------------------------------------------------------------
(* The resolver alone: _get_auth_token applied to sampled HTTP outcomes *)

InitResolve ==
    /\ pc = ConstructorBody[1]
    /\ session_id = Some(<< "s", "i", "d" >>)
    /\ token = None
    /\ auth_token = None
    /\ ws = "none"
    /\ quote_session = None
    /\ chart_session = None
    /\ self_quote_session = None
    /\ self_chart_session = None
    /\ step = 1
    /\ wire = <<>>
    /\ last_send = "none"
    /\ raised = "none"
    /\ http_gets = 0
    /\ connects = 0
    /\ generated = 0
    /\ send_calls = 0
    /\ ws_sends = 0
    /\ errors_logged = 0
    /\ user_sends = 0
    /\ frame_call = [func |-> <<>>, param_list |-> <<>>, message |-> <<>>]
    /\ gen_call = NoGenCall
    /\ \E o \in HttpOutcomes :
          resolve_call = [NoResolveCall EXCEPT !.outcome = o]

\* _get_auth_token(session_id) when requests.get ends with resolve_call.outcome
CallGetAuthToken ==
    /\ ~resolve_call.done
    /\ resolve_call' =
          [resolve_call EXCEPT
              !.result = IF ResolverRaises(resolve_call.outcome) = "none"
                         THEN get_auth_token(resolve_call.outcome) ELSE None,
              !.raised = ResolverRaises(resolve_call.outcome),
              !.done = TRUE]
    /\ http_gets' = http_gets + 1
    /\ errors_logged' = errors_logged
          + (IF RequestFailed(resolve_call.outcome) THEN 1 ELSE 0)
    /\ UNCHANGED << pc, session_id, token, auth_token, ws, quote_session,
                    chart_session, self_quote_session, self_chart_session,
                    step, wire, last_send, raised, connects, generated,
                    send_calls, ws_sends, user_sends, frame_call, gen_call >>

NextResolve == CallGetAuthToken

SpecResolve == InitResolve /\ [][NextResolve]_vars

---------------------------------------------------------------------------
(* The session id generator alone: generate_session, one secrets.choice at a time *)

GenPrefixes == { <<>>, QS_PREFIX, CS_PREFIX }

InitGenerate ==
    /\ pc = ConstructorBody[1]
    /\ session_id = None
    /\ token = None
    /\ auth_token = None
    /\ ws = "none"
    /\ quote_session = None
    /\ chart_session = None
    /\ self_quote_session = None
    /\ self_chart_session = None
    /\ step = 1
    /\ wire = <<>>
    /\ last_send = "none"
    /\ raised = "none"
    /\ http_gets = 0
    /\ connects = 0
    /\ generated = 0
    /\ send_calls = 0
    /\ ws_sends = 0
    /\ errors_logged = 0
    /\ user_sends = 0
    /\ frame_call = [func |-> <<>>, param_list |-> <<>>, message |-> <<>>]
    /\ resolve_call = NoResolveCall
    /\ \E p \in GenPrefixes : gen_call = [NoGenCall EXCEPT !.prefix = p]

\* secrets.choice(string.ascii_lowercase) returns c, for one _ in range(12)
ChooseLetter(c) ==
    /\ gen_call.result = None
    /\ Len(gen_call.random_string) < SessionLen
    /\ \E i \in 1 .. Len(ascii_lowercase) : ascii_lowercase[i] = c
    /\ gen_call' = [gen_call EXCEPT !.random_string = Append(@, c)]
    /\ UNCHANGED << pc, session_id, token, auth_token, ws, quote_session,
                    chart_session, self_quote_session, self_chart_session,
                    step, wire, last_send, raised, http_gets, connects,
                    generated, send_calls, ws_sends, errors_logged,
                    user_sends, frame_call, resolve_call >>

\* return prefix + random_string, once range(12) is used up
ReturnSession ==
    /\ gen_call.result = None
    /\ Len(gen_call.random_string) = SessionLen
    /\ gen_call' = [gen_call EXCEPT
                      !.result = Some(generate_session(gen_call.prefix,
                                                       gen_call.random_string))]
    /\ generated' = generated + 1
    /\ UNCHANGED << pc, session_id, token, auth_token, ws, quote_session,
                    chart_session, self_quote_session, self_chart_session,
                    step, wire, last_send, raised, http_gets, connects,
                    send_calls, ws_sends, errors_logged, user_sends,
                    frame_call, resolve_call >>

\* the draws followed here are those that build one of RandomStrings
ExploredDraw(c) ==
    \E r \in RandomStrings :
        /\ Len(gen_call.random_string) < Len(r)
        /\ SubSeq(r, 1, Len(gen_call.random_string) + 1)
              = Append(gen_call.random_string, c)

NextGenerate ==
    \/ \E c \in SampleLetters : ExploredDraw(c) /\ ChooseLetter(c)
    \/ ReturnSession

SpecGenerate == InitGenerate /\ [][NextGenerate]_vars

---------------------------------------------------------------------------
(* Reading the handler's history *)

\* the (func, args) of the send_message calls so far
WireCalls == [i \in 1 .. Len(wire) |-> [func |-> wire[i].func, args |-> wire[i].args]]

\* the setup calls this construction is to make
SetupCalls == initialize_sessions(quote_session.v, chart_session.v, auth_token.v)

NumSetup == Len(initialize_sessions(<<>>, <<>>, <<>>))

ConstructionOver == pc \in { "ready", "failed" }

FieldsSet == ~self_quote_session.isNone \/ ~self_chart_session.isNone

---------------------------------------------------------------------------
(* Claims *)

\* C1: during every construction whose transport connection opens, the calls
\* handed to the transport are exactly the six setup calls, in order:
\* set_auth_token, set_locale, chart_create_session, quote_create_session,
\* quote_set_fields, quote_hibernate_all, and nothing else.
C1_ExactlySixSetupMessages ==
    /\ (ws = "open" /\ wire # <<>>) =>
          /\ Len(wire) <= NumSetup + user_sends
          /\ \A i \in 1 .. Len(wire) : i <= NumSetup => WireCalls[i] = SetupCalls[i]
    /\ (ws = "open" /\ ConstructionOver) => Len(wire) = NumSetup + user_sends

\* C2: send_message never lets a failure of the transport's send reach its
\* caller: whatever self.ws.send raised, the call returned normally.
C2_SendFailureNeverPropagates ==
    last_send \in SendFailures => raised = "none"

\* C3: once the connection is open, construction ends in Ready: no failure of
\* a setup send aborts it, and all six setup calls are attempted.
C3_OpenedConstructionReachesReady ==
    /\ ws = "open" => pc # "failed"
    /\ (ws = "open" /\ ConstructionOver) => Len(wire) >= NumSetup

\* C4: with no session credential (None) the first message sent is
\* set_auth_token ["unauthorized_user_token"], and the token resolver's HTTP
\* GET is never made.
C4_NoCredentialSendsSentinel ==
    session_id = None =>
        /\ http_gets = 0
        /\ wire # <<>> =>
              /\ wire[1].func = F_set_auth_token
              /\ wire[1].args = << JStr(UNAUTHORIZED_USER_TOKEN) >>
              /\ wire[1].message =
                    create_message(F_set_auth_token,
                                   << JStr(UNAUTHORIZED_USER_TOKEN) >>)

C4_Witness ==
    /\ session_id = None
    /\ wire # <<>>
    /\ pc = "ready"

\* C5: with a session credential present, set_auth_token carries the
\* resolver's value when it returned one and the sentinel when it returned
\* nothing, and construction does not fail because of token resolution.
C5_ResolvedTokenOrSentinel ==
    (~session_id.isNone /\ pc # "resolve") =>
        /\ token.isNone => auth_token = Some(UNAUTHORIZED_USER_TOKEN)
        /\ ~token.isNone => auth_token = token /\ http_gets = 1
        /\ wire # <<>> =>
              /\ wire[1].func = F_set_auth_token
              /\ wire[1].args = << JStr(auth_token.v) >>
        /\ pc = "failed" => connects = 1

C5_Witness ==
    /\ ~session_id.isNone
    /\ ~token.isNone
    /\ token.v # UNAUTHORIZED_USER_TOKEN
    /\ Len(wire) >= NumSetup
    /\ pc = "ready"

\* C6: when the transport connection cannot be established, the connection
\* error reaches the caller of the constructor after exactly one connect
\* attempt; no setup message is sent, no session id is generated, and the
\* handler never becomes Ready.
C6_ConnectFailureIsFatal ==
    /\ ws = "none" =>
          /\ pc \in { "resolve", "connect", "failed" }
          /\ connects <= 1
          /\ wire = <<>> /\ send_calls = 0 /\ ws_sends = 0
          /\ generated = 0
          /\ quote_session = None /\ chart_session = None
          /\ ~FieldsSet
    /\ (pc = "failed" /\ ws = "none") =>
          /\ raised \in ConnectFailures
          /\ connects = 1

C6_Witness == pc = "failed" /\ ws = "none" /\ raised \in ConnectFailures

\* C7: the handler's quote_session and chart_session fields are set (Ready)
\* only after all six setup messages were handed to the transport; the
\* fields are never visible while a setup message is outstanding.
C7_ReadyOnlyAfterSetup ==
    (FieldsSet \/ pc = "ready") =>
        /\ Len(wire) >= NumSetup
        /\ ws_sends >= NumSetup
        /\ SubSeq(WireCalls, 1, NumSetup) = SetupCalls
        /\ step = NumSetup + 1

C7_Witness ==
    /\ pc = "ready"
    /\ ~self_quote_session.isNone
    /\ ~self_chart_session.isNone
    /\ user_sends = 0

\* the characters of a frame between its two ~m~ marks, and what follows them
SecondMark(msg) ==
    CHOOSE j \in 4 .. Len(msg) :
        /\ msg[j] = "~"
        /\ \A k \in 4 .. j - 1 : msg[k] # "~"

LengthField(msg) == SubSeq(msg, 4, SecondMark(msg) - 1)

FramePayload(msg) == SubSeq(msg, SecondMark(msg) + 3, Len(msg))

DigitValue(c) == (CHOOSE d \in 1 .. 10 : Digits[d] = c) - 1

RECURSIVE ParseDecimal(_)
ParseDecimal(ds) ==
    IF Len(ds) = 1 THEN DigitValue(ds[1])
    ELSE 10 * ParseDecimal(SubSeq(ds, 1, Len(ds) - 1)) + DigitValue(ds[Len(ds)])

IsDecimal(ds) ==
    /\ ds # <<>>
    /\ \A k \in 1 .. Len(ds) : \E d \in 1 .. 10 : Digits[d] = ds[k]
    /\ Len(ds) > 1 => ds[1] # "0"

WellFramed(msg, func, param_list) ==
    /\ Len(msg) >= 8
    /\ SubSeq(msg, 1, 3) = HeaderMark
    /\ \E j \in 4 .. Len(msg) : msg[j] = "~"
    /\ SubSeq(msg, SecondMark(msg), SecondMark(msg) + 2) = HeaderMark
    /\ IsDecimal(LengthField(msg))
    /\ FramePayload(msg) = construct_message(func, param_list)
    /\ ParseDecimal(LengthField(msg)) = Len(FramePayload(msg))

\* C8: for every function name and parameter list, create_message returns
\* "~m~" + N + "~m~" + payload, where payload is the serialized message and
\* the decimal N is exactly the number of characters of payload.
C8_LengthFieldIsPayloadLength ==
    frame_call.message # <<>> =>
        WellFramed(frame_call.message, frame_call.func, frame_call.param_list)

C8_Witness ==
    /\ frame_call.message # <<>>
    /\ \E k \in 1 .. Len(frame_call.func) : frame_call.func[k] = NON_ASCII_BMP
    /\ Len(frame_call.param_list) >= 2
    /\ Len(LengthField(frame_call.message)) = 3

SET_LOCALE_ARGS == << JStr(<< "e", "n" >>), JStr(<< "U", "S" >>) >>

SET_LOCALE_FRAME_35 ==
    << "~", "m", "~", "3", "5", "~", "m", "~", "{", "\"", "m", "\"",
       ":", "\"", "s", "e", "t", "_", "l", "o", "c", "a", "l", "e",
       "\"", ",", "\"", "p", "\"", ":", "[", "\"", "e", "n", "\"", ",",
       "\"", "U", "S", "\"", "]", "}" >>

SET_LOCALE_FRAME_34 ==
    << "~", "m", "~", "3", "4", "~", "m", "~", "{", "\"", "m", "\"",
       ":", "\"", "s", "e", "t", "_", "l", "o", "c", "a", "l", "e",
       "\"", ",", "\"", "p", "\"", ":", "[", "\"", "e", "n", "\"", ",",
       "\"", "U", "S", "\"", "]", "}" >>

SetLocaleFrames ==
    { wire[i].message : i \in { k \in 1 .. Len(wire) :
                                  /\ wire[k].func = F_set_locale
                                  /\ wire[k].args = SET_LOCALE_ARGS } }

\* C9 as stated: create_message("set_locale", ["en","US"]) is exactly
\* ~m~35~m~{"m":"set_locale","p":["en","US"]}, length field 35.
C9_SetLocaleFrameIs35 ==
    \A m \in SetLocaleFrames : m = SET_LOCALE_FRAME_35

\* C9 as amended: create_message("set_locale", ["en","US"]) is exactly
\* ~m~34~m~{"m":"set_locale","p":["en","US"]}: the length field is 34, the
\* number of characters of the compact JSON payload.
C9_SetLocaleFrameIs34 ==
    \A m \in SetLocaleFrames :
        /\ m = SET_LOCALE_FRAME_34
        /\ ParseDecimal(LengthField(m)) = Len(FramePayload(m))

C9_Witness == SetLocaleFrames # {}

\* C10: nothing is retried: one construction makes at most one HTTP GET and
\* exactly one connect attempt, and every send_message call makes exactly one
\* transport send attempt, whether that attempt succeeds or fails.
C10_NoRetry ==
    /\ http_gets <= 1
    /\ (pc # "resolve" /\ Truthy(session_id)) => http_gets = 1
    /\ connects <= 1
    /\ pc \notin { "resolve", "connect" } => connects = 1
    /\ ws_sends = send_calls
    /\ send_calls = Len(wire)

C10_Witness ==
    /\ http_gets = 1
    /\ connects = 1
    /\ last_send \in CaughtOnSend
    /\ ws_sends = NumSetup + 1

\* the pattern "auth_token":"<value>" stands in text at i with its value
\* ending before j: a non-empty value on one line, closed by the first quote
\* after its first character
TokenOccurs(text, i, j) ==
    /\ HeadAt(text, i)
    /\ j > i + Len(AUTH_TOKEN_PATTERN_HEAD)
    /\ j <= Len(text)
    /\ text[j] = "\""
    /\ \A k \in (i + Len(AUTH_TOKEN_PATTERN_HEAD)) .. (j - 1) : text[k] # "\n"
    /\ \A k \in (i + Len(AUTH_TOKEN_PATTERN_HEAD) + 1) .. (j - 1) : text[k] # "\""

Occurrences(text) ==
    { ij \in (1 .. Len(text)) \X (1 .. Len(text)) : TokenOccurs(text, ij[1], ij[2]) }

\* the value of the leftmost occurrence, absent when there is none
BodyToken(text) ==
    IF Occurrences(text) = {} THEN None
    ELSE LET first == CHOOSE ij \in Occurrences(text) :
                         \A o \in Occurrences(text) : ij[1] <= o[1]
         IN  Some(SubSeq(text, first[1] + Len(AUTH_TOKEN_PATTERN_HEAD), first[2] - 1))

Is2xx(status) == 200 <= status /\ status < 300

\* C11 as stated: _get_auth_token raises nothing; a network error and every
\* non-2xx status give absent; a 2xx response gives the token of the body's
\* "auth_token":"<value>" pattern, absent when the body has none.
C11_Non2xxIsAbsent ==
    resolve_call.done =>
        /\ resolve_call.raised = "none"
        /\ resolve_call.outcome.exc # "none" => resolve_call.result = None
        /\ (resolve_call.outcome.exc = "none"
              /\ ~Is2xx(resolve_call.outcome.status)) => resolve_call.result = None
        /\ (resolve_call.outcome.exc = "none"
              /\ Is2xx(resolve_call.outcome.status)) =>
                 resolve_call.result = BodyToken(resolve_call.outcome.text)

\* C11 as amended: _get_auth_token raises nothing; a network error and every
\* 4xx or 5xx status give absent; a response with any other status (2xx, but
\* also a 3xx that is the final response) gives the token of the body's
\* "auth_token":"<value>" pattern, absent when the body has none.
C11_ErrorStatusIsAbsent ==
    resolve_call.done =>
        /\ resolve_call.raised = "none"
        /\ resolve_call.outcome.exc # "none" => resolve_call.result = None
        /\ (resolve_call.outcome.exc = "none"
              /\ 400 <= resolve_call.outcome.status
              /\ resolve_call.outcome.status < 600) => resolve_call.result = None
        /\ (resolve_call.outcome.exc = "none"
              /\ ~(400 <= resolve_call.outcome.status
                     /\ resolve_call.outcome.status < 600)) =>
                 resolve_call.result = BodyToken(resolve_call.outcome.text)

C11_Witness ==
    /\ resolve_call.done
    /\ resolve_call.outcome.exc = "none"
    /\ resolve_call.outcome.status = 404
    /\ BodyToken(resolve_call.outcome.text) # None
    /\ resolve_call.result = None

LowercaseLatin ==
    { "a", "b", "c", "d", "e", "f", "g", "h", "i", "j", "k", "l", "m",
      "n", "o", "p", "q", "r", "s", "t", "u", "v", "w", "x", "y", "z" }

\* C12: for every prefix, generate_session returns a string of length
\* len(prefix)+12 that starts with prefix and whose last 12 characters are
\* lowercase Latin letters; every such suffix is possible: whatever was drawn
\* so far, each of the 26 letters can be the next of the 12 characters.
C12_PrefixPlusTwelveLetters ==
    /\ gen_call.result # None =>
          /\ Len(gen_call.result.v) = Len(gen_call.prefix) + 12
          /\ SubSeq(gen_call.result.v, 1, Len(gen_call.prefix)) = gen_call.prefix
          /\ \A k \in (Len(gen_call.result.v) - 11) .. Len(gen_call.result.v) :
                gen_call.result.v[k] \in LowercaseLatin
          /\ SubSeq(gen_call.result.v, Len(gen_call.result.v) - 11,
                    Len(gen_call.result.v)) = gen_call.random_string
    /\ (gen_call.result = None /\ Len(gen_call.random_string) < 12) =>
          \A c \in LowercaseLatin : ENABLED ChooseLetter(c)
    /\ (gen_call.result = None /\ Len(gen_call.random_string) >= 12) =>
          /\ Len(gen_call.random_string) = 12
          /\ ENABLED ReturnSession
          /\ \A c \in LowercaseLatin : ~ENABLED ChooseLetter(c)

C12_Witness ==
    /\ gen_call.result # None
    /\ gen_call.prefix = QS_PREFIX
    /\ gen_call.random_string[1] # gen_call.random_string[12]

\* the 23 quote field names, as the glossary lists them
GLOSSARY_QUOTE_FIELDS ==
    << <<"c", "h">>,
       <<"c", "h", "p">>,
       <<"c", "u", "r", "r", "e", "n", "t", "_", "s", "e", "s", "s", "i", "o", "n">>,
       <<"d", "e", "s", "c", "r", "i", "p", "t", "i", "o", "n">>,
       <<"l", "o", "c", "a", "l", "_", "d", "e", "s", "c", "r", "i", "p", "t", "i", "o", "n">>,
       <<"l", "a", "n", "g", "u", "a", "g", "e">>,
       <<"e", "x", "c", "h", "a", "n", "g", "e">>,
       <<"f", "r", "a", "c", "t", "i", "o", "n", "a", "l">>,
       <<"i", "s", "_", "t", "r", "a", "d", "a", "b", "l", "e">>,
       <<"l", "p">>,
       <<"l", "p", "_", "t", "i", "m", "e">>,
       <<"m", "i", "n", "m", "o", "v">>,
       <<"m", "i", "n", "m", "o", "v", "e", "2">>,
       <<"o", "r", "i", "g", "i", "n", "a", "l", "_", "n", "a", "m", "e">>,
       <<"p", "r", "i", "c", "e", "s", "c", "a", "l", "e">>,
       <<"p", "r", "o", "_", "n", "a", "m", "e">>,
       <<"s", "h", "o", "r", "t", "_", "n", "a", "m", "e">>,
       <<"t", "y", "p", "e">>,
       <<"u", "p", "d", "a", "t", "e", "_", "m", "o", "d", "e">>,
       <<"v", "o", "l", "u", "m", "e">>,
       <<"c", "u", "r", "r", "e", "n", "c", "y", "_", "c", "o", "d", "e">>,
       <<"r", "c", "h", "p">>,
       <<"r", "t", "c">> >>

QuoteSetFieldsCalls ==
    { i \in 1 .. Len(wire) : wire[i].func = F_quote_set_fields }

\* C13: the quote_set_fields setup message carries exactly 24 parameters:
\* the quote session id first, then the 23 quote field names of the
\* glossary, each once and in the glossary's order.
C13_QuoteSetFieldsCarriesAllFields ==
    /\ \A i \in QuoteSetFieldsCalls :
          /\ Len(wire[i].args) = 24
          /\ wire[i].args[1] = JStr(quote_session.v)
          /\ \A k \in 1 .. 23 : wire[i].args[k + 1] = JStr(GLOSSARY_QUOTE_FIELDS[k])
          /\ \A j, k \in 2 .. 24 : j # k => wire[i].args[j] # wire[i].args[k]
    /\ Len(wire) >= 5 => QuoteSetFieldsCalls = { 5 }

C13_Witness ==
    /\ QuoteSetFieldsCalls # {}
    /\ pc = "ready"

\* C14: construction runs in a fixed order: token resolution (when there is
\* one) is complete before the connect is attempted, the connect is complete
\* before a session id is generated, and both session ids are generated before
\* the first setup message is sent.
C14_ConstructionOrder ==
    /\ connects >= 1 =>
          /\ pc # "resolve"
          /\ auth_token # None
          /\ session_id \notin { None, Some(<<>>) } => http_gets = 1
    /\ http_gets >= 1 => auth_token # None
    /\ generated >= 1 => (ws = "open" /\ connects = 1)
    /\ send_calls >= 1 =>
          /\ generated = 2
          /\ quote_session # None
          /\ chart_session # None

C14_Witness ==
    /\ http_gets = 1
    /\ connects = 1
    /\ generated = 2
    /\ send_calls = 1
    /\ pc = "setup"

\* C15: a send_message call, whether its transport send succeeds or fails,
\* leaves the handler as it was: the connection is neither closed nor
\* replaced, quote_session and chart_session keep their values, and a Ready
\* handler stays Ready.
C15_SendLeavesHandlerUnchanged ==
    [][send_calls' # send_calls =>
          /\ ws' = ws
          /\ ws = "open"
          /\ self_quote_session' = self_quote_session
          /\ self_chart_session' = self_chart_session
          /\ pc = "ready" => pc' = "ready"]_vars

C15_Witness ==
    /\ pc = "ready"
    /\ user_sends >= 1
    /\ last_send \in SendFailures
    /\ ws = "open"

SetupSent == { i \in 1 .. Len(wire) : i <= NumSetup }

CarriesToken(i) ==
    \E k \in 1 .. Len(wire[i].args) : wire[i].args[k] = JStr(auth_token.v)

\* C16: the auth token is not kept by the handler: after construction no
\* field of the handler holds it, and among the setup messages it is a
\* parameter of set_auth_token and of no other.
C16_TokenNotRetained ==
    /\ pc = "ready" =>
          /\ self_quote_session # auth_token
          /\ self_chart_session # auth_token
          /\ ws = "open"
    /\ \A i \in SetupSent : CarriesToken(i) <=> wire[i].func = F_set_auth_token

C16_Witness ==
    /\ pc = "ready"
    /\ auth_token # Some(UNAUTHORIZED_USER_TOKEN)
    /\ CarriesToken(1)

\* C17: session ids are consistent: quote_create_session, quote_set_fields
\* and quote_hibernate_all carry one and the same quote session id, which is
\* the handler's quote_session field after construction; chart_create_session
\* carries the id of the chart_session field; each id is generated once.
C17_SessionIdsConsistent ==
    /\ \A i \in SetupSent :
          /\ wire[i].func \in { F_quote_create_session, F_quote_set_fields,
                                F_quote_hibernate_all } =>
                wire[i].args[1] = JStr(quote_session.v)
          /\ wire[i].func = F_chart_create_session =>
                wire[i].args[1] = JStr(chart_session.v)
    /\ pc = "ready" =>
          /\ generated = 2
          /\ wire[4].func = F_quote_create_session
          /\ wire[5].func = F_quote_set_fields
          /\ wire[6].func = F_quote_hibernate_all
          /\ wire[3].func = F_chart_create_session
          /\ wire[4].args[1] = JStr(self_quote_session.v)
          /\ wire[5].args[1] = JStr(self_quote_session.v)
          /\ wire[6].args[1] = JStr(self_quote_session.v)
          /\ wire[3].args[1] = JStr(self_chart_session.v)
          /\ SubSeq(self_quote_session.v, 1, 3) = << "q", "s", "_" >>
          /\ SubSeq(self_chart_session.v, 1, 3) = << "c", "s", "_" >>
    /\ generated <= 2

C17_Witness ==
    /\ pc = "ready"
    /\ SubSeq(self_quote_session.v, 4, 15) # SubSeq(self_chart_session.v, 4, 15)

\* C18: _get_auth_token is called during construction exactly when the
\* session credential is a non-empty string; an empty-string credential is
\* treated like an absent one: no HTTP request, set_auth_token carries the
\* sentinel token.
C18_ResolverCalledIffNonEmptyCredential ==
    /\ pc # "resolve" =>
          (http_gets = 1 <=> (~session_id.isNone /\ Len(session_id.v) > 0))
    /\ pc = "resolve" => http_gets = 0
    /\ session_id = Some(<<>>) =>
          /\ http_gets = 0
          /\ token = None
          /\ wire # <<>> => WireCalls[1] =
                [func |-> F_set_auth_token,
                 args |-> << JStr(UNAUTHORIZED_USER_TOKEN) >>]

C18_Witness ==
    /\ session_id = Some(<<>>)
    /\ wire # <<>>
    /\ pc = "ready"

====
